---- MODULE Spec2Model ----
(***************************************************************************)
(* A model of gofilepy: the GofileClient session (client.py), the          *)
(* ProgressFileReader stream (utils.py) and the batch upload / download    *)
(* flows of the command line (cli.py).                                     *)
(*                                                                         *)
(* Python values are modelled as follows.  None (JSON null) is NoneVal; a   *)
(* dict is a record, in which a key the dict does not have holds Missing;  *)
(* an exception is the name of its class; a call returns                   *)
(* [exc |-> "none", value |-> v] or raises [exc |-> class].                *)
(* A string handled by extract_content_id is a sequence of tokens, where   *)
(* the token "gofile.io" stands for that literal and the other tokens are  *)
(* single characters.                                                      *)
(***************************************************************************)
EXTENDS Integers, Sequences, FiniteSets, TLC

VARIABLES
    pc,                 \* position of the caller: new, ready, uploading, downloading, done, aborted
    token,              \* GofileClient.token
    headers,            \* GofileClient.client.headers["Authorization"] (NoneVal: not set)
    requests,           \* the requests the last call (a client method or a batch) has sent, in order
    lastOp,             \* the core operation or batch function called last
    raised,             \* the exception that call raised to its caller ("none": it returned)
    args,               \* argparse.Namespace of the running batch
    target_folder_id,   \* upload_files: local target_folder_id
    idx,                \* number of loop iterations of the batch completed
    children,           \* download_files: the children of the folder being downloaded
    results,            \* the batch's results list
    replies,            \* the payloads that call has received, each with the index of its request
    response,           \* _handle_response: the response under test
    normalized,         \* _handle_response: its outcome
    reader,             \* ProgressFileReader: unopened, open, closed, or the exception __init__ raised
    fsize,              \* ProgressFileReader: size of the underlying file
    fpos,               \* ProgressFileReader: position of self._f
    calls,              \* ProgressFileReader: arguments the callback received, in order
    chunks,             \* ProgressFileReader: lengths read() returned, in order
    url_or_id,          \* extract_content_id: the input
    once,               \* extract_content_id(url_or_id)
    twice               \* extract_content_id(once)

vars == <<pc, token, headers, requests, lastOp, raised, args, target_folder_id, idx,
          children, results, replies, response, normalized, reader, fsize, fpos, calls, chunks,
          url_or_id, once, twice>>

sessionVars == <<pc, token, headers, requests, lastOp, raised, args, target_folder_id,
                 idx, children, results, replies>>
normalizeVars == <<response, normalized>>
readerVars == <<reader, fsize, fpos, calls, chunks>>
extractVars == <<url_or_id, once, twice>>

-----------------------------------------------------------------------------
(* Bounds *)

MaxFiles == 3       \* paths in args.files, children in a folder
MaxSize == 3        \* size of the file behind a ProgressFileReader
MaxReads == 4       \* read() calls on one ProgressFileReader
MaxLen == 6         \* tokens in an input of extract_content_id

-----------------------------------------------------------------------------
(* Python values *)

NoneVal == "<None>"
Pending == [exc |-> "pending", msg |-> ""]         \* the call has not been made yet
NoString == <<"<pending>">>              \* no string computed yet

Missing == "<missing>"                   \* the value of a key a dict does not have

Truthy(s) == s # NoneVal /\ s # ""

\* d.get(key) and d.get(key, default), v being what d holds under key
get(v) == IF v = Missing THEN NoneVal ELSE v
get_default(v, default) == IF v = Missing THEN default ELSE v

\* str(v) of None or of a string
str(v) == IF v = NoneVal THEN "None" ELSE v

Return(v) == [exc |-> "none", value |-> v]
Raise(e, msg) == [exc |-> e, msg |-> msg]

\* f"Bearer {token}"
Bearer(t) == "Bearer " \o t

Last(s) == s[Len(s)]

RECURSIVE SumSeq(_)
SumSeq(s) == IF s = <<>> THEN 0 ELSE s[1] + SumSeq(Tail(s))

-----------------------------------------------------------------------------
(* Responses of the remote service *)

Payload(pf, gt, tk, node) ==
    [mapping |-> TRUE, parentFolder |-> pf, guestToken |-> gt, token |-> tk,
     type |-> node.type, name |-> node.name, link |-> node.link, size |-> node.size,
     fault |-> node.fault, childrenIsDict |-> node.childrenIsDict]
NonMapping == [mapping |-> FALSE]

\* the fields of a contents payload; fault is what the transport and the disk do
\* when the node's link is downloaded ("none": the download succeeds)
Node(ty, name, link, size, fault, childrenIsDict) ==
    [type |-> ty, name |-> name, link |-> link, size |-> size, fault |-> fault,
     childrenIsDict |-> childrenIsDict]
NoNode == Node(Missing, Missing, Missing, <<>>, "none", TRUE)

\* a size field is <<n>>, or <<>> when the key is missing; int(d.get("size", 0))
size_of(d) == IF d.size = <<>> THEN 0 ELSE d.size[1]

\* what happens to a download: the transport fails, the status is an error,
\* the local write fails, or nothing
DownloadFaults == {"none", "ConnectError", "HTTPStatusError", "OSError"}

UploadPayloads ==
    { Payload(pf, gt, Missing, NoNode) : pf \in {Missing, "F1", "F2"}, gt \in {Missing, "G1"} }
AccountPayloads == { Payload(Missing, Missing, tk, NoNode) : tk \in {Missing, NoneVal, "G2"} }
FileNodes ==
    { Node("file", "a.txt", l, <<10>>, "none", TRUE) : l \in {Missing, NoneVal} }
    \cup { Node("file", nm, "L", <<10>>, "none", TRUE) : nm \in {Missing, NoneVal} }
    \cup { Node("file", "a.txt", "L", <<10>>, f, TRUE) : f \in DownloadFaults }
FolderNodes == { Node("folder", "dir", Missing, <<>>, "none", d) : d \in BOOLEAN }
OtherNodes == { Node(ty, Missing, Missing, <<>>, "none", TRUE) : ty \in {Missing, NoneVal, "album"} }
ContentPayloads ==
    { Payload(Missing, Missing, Missing, n) : n \in FileNodes \cup FolderNodes \cup OtherNodes }
EmptyPayload == Payload(Missing, Missing, Missing, NoNode)

HttpStatuses == {200, 302, 500}
Statuses == {"ok", "error-notFound", NoneVal}

Bodies(payloads) ==
    {[kind |-> "unparsable"], [kind |-> "nondict"]}
    \cup { [kind |-> "dict", status |-> st, data |-> d] :
             st \in Statuses, d \in payloads \cup {NonMapping} }

Responses(payloads) ==
    { [status_code |-> h, body |-> b] : h \in HttpStatuses, b \in Bodies(payloads) }

\* what self.client.request / post / stream does: an httpx exception or a response
Faults == {"TimeoutException", "ConnectError"}
Answer(h, b) == [fault |-> "none", response |-> [status_code |-> h, body |-> b]]
Envelope(st, d) == [kind |-> "dict", status |-> st, data |-> d]
\* one answer of each kind _handle_response tells apart, for each payload
Outcomes(payloads) ==
    { [fault |-> f] : f \in Faults }
    \cup { Answer(200, Envelope("ok", d)) : d \in payloads \cup {NonMapping} }
    \cup { Answer(h, b) : h \in HttpStatuses,
                          b \in {[kind |-> "unparsable"], [kind |-> "nondict"],
                                  Envelope("error-notFound", NonMapping),
                                  Envelope(NoneVal, NonMapping)} }

-----------------------------------------------------------------------------
(* GofileClient._handle_response and GofileClient._request *)

\* response.raise_for_status(): raises unless the status is 2xx
raise_for_status(r) == ~(200 <= r.status_code /\ r.status_code <= 299)

InvalidJson == Raise("GofileAPIError", "Invalid JSON returned by Gofile API")
ApiErrorPayload == Raise("GofileAPIError", "Gofile API Error: {status} - {data}")
UnexpectedPayload == Raise("GofileAPIError", "Gofile API returned unexpected payload structure")
\* httpx words the message of raise_for_status by the class of the status
error_type(status_code) ==
    LET status_class == status_code \div 100
    IN  IF status_class = 1 THEN "Informational response"
        ELSE IF status_class = 3 THEN "Redirect response"
        ELSE IF status_class = 4 THEN "Client error"
        ELSE IF status_class = 5 THEN "Server error"
        ELSE "Invalid status code"
StatusError(r) == Raise("HTTPStatusError", error_type(r.status_code) \o " for url")
NoGetAttribute == Raise("AttributeError", "object has no attribute 'get'")

_handle_response_any_status(r) ==
    IF r.body.kind = "unparsable"
    THEN IF raise_for_status(r) THEN StatusError(r) ELSE InvalidJson
    ELSE IF r.body.kind = "nondict" THEN NoGetAttribute
    ELSE IF ~r.body.data.mapping THEN UnexpectedPayload
    ELSE Return(r.body.data)

_handle_response(r) ==
    IF r.body.kind = "unparsable"
    THEN \* response.json() raises ValueError
         IF raise_for_status(r) THEN StatusError(r) ELSE InvalidJson
    ELSE IF r.body.kind = "nondict"
    THEN \* data.get on a list, a string or a number
         NoGetAttribute
    ELSE IF r.body.status # "ok" THEN ApiErrorPayload
    ELSE IF ~r.body.data.mapping THEN UnexpectedPayload
    ELSE Return(r.body.data)

_request(o) ==
    IF o.fault # "none"
    THEN Raise("GofileNetworkError", "Failed HTTP request to {url}")
    ELSE _handle_response(o.response)

-----------------------------------------------------------------------------
(* Specification of _handle_response alone *)

AllPayloads == UploadPayloads \cup AccountPayloads \cup ContentPayloads

\* argparse.Namespace: the fields upload_files and download_files read
Args(files, folder_id, to_single_folder, download, output) ==
    [files |-> files, folder_id |-> folder_id, to_single_folder |-> to_single_folder,
     download |-> download, output |-> output]
NoArgs == Args(<<>>, NoneVal, FALSE, <<>>, ".")

IdleSession ==
    /\ pc = "new" /\ token = NoneVal /\ headers = NoneVal /\ requests = <<>>
    /\ lastOp = "none" /\ raised = "none" /\ args = NoArgs /\ target_folder_id = NoneVal
    /\ idx = 0 /\ children = <<>> /\ results = <<>> /\ replies = <<>>
IdleNormalize == response = NoneVal /\ normalized = Pending
IdleReader == reader = "unopened" /\ fsize = 0 /\ fpos = 0 /\ calls = <<>> /\ chunks = <<>>
IdleExtract == url_or_id = <<>> /\ once = NoString /\ twice = NoString

InitNormalize ==
    /\ response \in Responses(AllPayloads)
    /\ normalized = Pending
    /\ IdleSession /\ IdleReader /\ IdleExtract

Normalize ==
    /\ normalized = Pending
    /\ normalized' = _handle_response(response)
    /\ UNCHANGED <<response, sessionVars, readerVars, extractVars>>

NextNormalize == Normalize
SpecNormalize == InitNormalize /\ [][NextNormalize]_vars

-----------------------------------------------------------------------------
(* Envelope validation *)

\* C6: a response whose body is an envelope with a top-level status other than
\* "ok" always makes _handle_response raise GofileAPIError, and _handle_response
\* returns a payload only for status "ok" with a mapping as data (that mapping).
C6_EnvelopeValidation ==
    normalized # Pending =>
        /\ (response.body.kind = "dict" /\ response.body.status # "ok")
              => normalized.exc = "GofileAPIError"
        /\ normalized.exc = "none"
              => /\ response.body.kind = "dict"
                 /\ response.body.status = "ok"
                 /\ response.body.data.mapping
                 /\ normalized.value = response.body.data

\* a well-formed payload under a failure status is rejected
C6_Witness ==
    /\ normalized # Pending
    /\ response.body.kind = "dict"
    /\ response.body.status = "error-notFound"
    /\ response.body.data.mapping
    /\ normalized.exc = "GofileAPIError"

-----------------------------------------------------------------------------
(* utils.py: ProgressFileReader *)

\* the first argument of ProgressFileReader(...): a path string or an open file object
\* state is what the file system holds there: missing, unreadable or regular
StrPath(state) == [kind |-> "str", state |-> state]
FileObject == [kind |-> "file", state |-> "regular"]

\* builtin open(file, "rb"); OSError stands for its subclasses (PermissionError,
\* IsADirectoryError, ...)
open(file) ==
    IF file.kind # "str"
    THEN Raise("TypeError", "expected str, bytes or os.PathLike object, not BufferedReader")
    ELSE IF file.state # "regular" THEN Raise("OSError", "[Errno] " \o file.state)
    ELSE Return(FileObject)

\* ProgressFileReader.__init__(filename, callback): self._f = open(filename, 'rb')
ProgressFileReader__init__(filename) == open(filename)

Min(a, b) == IF a < b THEN a ELSE b

\* self._f.read(size) on a regular file: the number of bytes returned
file_read(size, n, pos) == IF size < 0 THEN n - pos ELSE Min(size, n - pos)

read_reports_requested(size, n, pos) ==
    LET chunk == file_read(size, n, pos)
    IN  [chunk |-> chunk, callback |-> IF chunk > 0 THEN <<IF size < 0 THEN n ELSE size>> ELSE <<>>]

\* ProgressFileReader.read(size): the chunk returned and the callback invocations
read(size, n, pos) ==
    LET chunk == file_read(size, n, pos)
    IN  [chunk |-> chunk, callback |-> IF chunk > 0 THEN <<chunk>> ELSE <<>>]

ReadSizes == {-1} \cup (0 .. MaxSize)

InitReader ==
    /\ reader = "unopened"
    /\ fsize \in 0 .. MaxSize
    /\ fpos = 0 /\ calls = <<>> /\ chunks = <<>>
    /\ IdleSession /\ IdleNormalize /\ IdleExtract

ReaderConstruct ==
    /\ reader = "unopened"
    /\ \E filename \in {StrPath("regular"), StrPath("missing"), FileObject} :
          LET r == ProgressFileReader__init__(filename)
          IN  reader' = IF r.exc = "none" THEN "open" ELSE r.exc
    /\ UNCHANGED <<fsize, fpos, calls, chunks, sessionVars, normalizeVars, extractVars>>

ReaderRead ==
    /\ reader = "open"
    /\ Len(chunks) < MaxReads
    /\ \E size \in ReadSizes :
          LET r == read(size, fsize, fpos)
          IN  /\ fpos' = fpos + r.chunk
              /\ calls' = calls \o r.callback
              /\ chunks' = Append(chunks, [size |-> size, len |-> r.chunk])
    /\ UNCHANGED <<reader, fsize, sessionVars, normalizeVars, extractVars>>

\* ProgressFileReader.close()
ReaderClose ==
    /\ reader = "open"
    /\ reader' = "closed"
    /\ UNCHANGED <<fsize, fpos, calls, chunks, sessionVars, normalizeVars, extractVars>>

NextReader == ReaderConstruct \/ ReaderRead \/ ReaderClose
SpecReader == InitReader /\ [][NextReader]_vars

RECURSIVE NonEmptyLens(_)
NonEmptyLens(cs) ==
    IF cs = <<>> THEN <<>>
    ELSE (IF cs[1].len > 0 THEN <<cs[1].len>> ELSE <<>>) \o NonEmptyLens(Tail(cs))

\* a read that asked for bytes and got none: end of file
AtEOF == \E i \in 1 .. Len(chunks) : chunks[i].size # 0 /\ chunks[i].len = 0

\* C7: the callback receives exactly the lengths of the non-empty reads, in
\* order, never 0, and once the file has been read to its end they sum to its size.
C7_ProgressAccounting ==
    /\ calls = NonEmptyLens(chunks)
    /\ \A i \in 1 .. Len(calls) : calls[i] > 0
    /\ AtEOF => SumSeq(calls) = fsize

\* a file read to its end in several chunks, one of them shorter than requested
C7_Witness ==
    /\ AtEOF
    /\ fsize = MaxSize
    /\ Len(calls) >= 2
    /\ \E i \in 1 .. Len(chunks) : chunks[i].size > chunks[i].len /\ chunks[i].len > 0

-----------------------------------------------------------------------------
(* cli.py: extract_content_id *)

Domain == "gofile.io"
Alphabet == {Domain, "/", "d", "?"}
SharePath == <<Domain, "/", "d", "/">>        \* "gofile.io/d/"

Strings == UNION { [1 .. n -> Alphabet] : n \in 0 .. MaxLen }

\* sub in s
Contains(s, sub) ==
    \E i \in 1 .. (Len(s) - Len(sub) + 1) : SubSeq(s, i, i + Len(sub) - 1) = sub

\* s.find(sub) + 1, for a sub that occurs in s
Find(s, sub) ==
    CHOOSE i \in 1 .. (Len(s) - Len(sub) + 1) :
        /\ SubSeq(s, i, i + Len(sub) - 1) = sub
        /\ \A j \in 1 .. (i - 1) : SubSeq(s, j, j + Len(sub) - 1) # sub

\* s.split(sep)
RECURSIVE Split(_, _)
Split(s, sep) ==
    IF ~Contains(s, sep) THEN <<s>>
    ELSE LET i == Find(s, sep)
         IN  <<SubSeq(s, 1, i - 1)>> \o Split(SubSeq(s, i + Len(sep), Len(s)), sep)

\* s.rstrip(c)
RECURSIVE RStrip(_, _)
RStrip(s, c) ==
    IF s # <<>> /\ Last(s) = c THEN RStrip(SubSeq(s, 1, Len(s) - 1), c) ELSE s

extract_content_id_keeps_path(url) ==
    IF Contains(url, SharePath)
    THEN Split(Last(Split(url, SharePath)), <<"?">>)[1]
    ELSE IF Contains(url, <<Domain>>)
    THEN Split(Last(Split(RStrip(url, "/"), <<"/">>)), <<"?">>)[1]
    ELSE url

extract_content_id(url) ==
    IF Contains(url, SharePath)
    THEN Split(Split(Last(Split(url, SharePath)), <<"?">>)[1], <<"/">>)[1]
    ELSE IF Contains(url, <<Domain>>)
    THEN Split(Last(Split(RStrip(url, "/"), <<"/">>)), <<"?">>)[1]
    ELSE url

InitExtract ==
    /\ url_or_id \in Strings
    /\ once = NoString /\ twice = NoString
    /\ IdleSession /\ IdleNormalize /\ IdleReader

Extract ==
    /\ once = NoString
    /\ once' = extract_content_id(url_or_id)
    /\ UNCHANGED <<url_or_id, twice, sessionVars, normalizeVars, readerVars>>

ExtractAgain ==
    /\ once # NoString /\ twice = NoString
    /\ twice' = extract_content_id(once)
    /\ UNCHANGED <<url_or_id, once, sessionVars, normalizeVars, readerVars>>

NextExtract == Extract \/ ExtractAgain
SpecExtract == InitExtract /\ [][NextExtract]_vars

\* C8: extracting the identifier from an extracted identifier gives it back.
C8_ExtractIdempotent == twice # NoString => twice = once

\* a share URL with a scheme-like prefix, a query string and a trailing path
C8_Witness ==
    /\ twice # NoString
    /\ Contains(url_or_id, SharePath)
    /\ Contains(url_or_id, <<"?">>)
    /\ url_or_id[1] # Domain
    /\ once = <<"d">>

-----------------------------------------------------------------------------
(* client.py: GofileClient *)

\* one request handed to the transport: auth is the client's default
\* Authorization header when it is sent, token and folderId are the multipart
\* form fields, cookie is accountToken, wrapped tells whether the file part is
\* a ProgressFileReader
Req(op, auth, tok, fid, cookie, wrapped) ==
    [op |-> op, auth |-> auth, token |-> tok, folderId |-> fid, cookie |-> cookie,
     wrapped |-> wrapped]
ApiReq(op, s) == Req(op, s.headers, NoneVal, NoneVal, NoneVal, FALSE)

\* the outcome of a client method: the session afterwards, the requests it
\* sent, the payloads it received, and what it raised or returned
Done(s, sent, got, r) ==
    [s |-> s, sent |-> sent, got |-> got, exc |-> r.exc,
     msg |-> IF r.exc = "none" THEN "" ELSE r.msg,
     value |-> IF r.exc = "none" THEN r.value ELSE NonMapping]
Got(r) == IF r.exc = "none" THEN <<r.value>> ELSE <<>>

GofileClient__init__(tok) ==
    [token |-> tok, headers |-> IF Truthy(tok) THEN Bearer(tok) ELSE NoneVal]

create_folder(s, o) ==
    LET r == _request(o)
    IN  Done(s, <<ApiReq("POST /contents/createFolder", s)>>, Got(r), r)

delete_content(s, o) ==
    LET r == _request(o)
    IN  Done(s, <<ApiReq("DELETE /contents", s)>>, Got(r), r)

create_guest_account_keeps_header(s, o) ==
    LET r == _request(o)
        adopted == IF r.exc = "none" /\ r.value.token # Missing
                   THEN [token |-> str(r.value.token), headers |-> s.headers]
                   ELSE s
    IN  Done(adopted, <<ApiReq("POST /accounts", s)>>, Got(r), r)

create_guest_account(s, o) ==
    LET r == _request(o)
        \* "token" in response; self.token = str(response["token"])
        adopted == IF r.exc = "none" /\ r.value.token # Missing
                   THEN [token |-> str(r.value.token), headers |-> Bearer(str(r.value.token))]
                   ELSE s
    IN  Done(adopted, <<ApiReq("POST /accounts", s)>>, Got(r), r)

get_contents_without_account(s, o1, o2) ==
    LET r == _request(o2)
    IN  Done(s, <<ApiReq("GET /contents", s)>>, Got(r), r)

\* o1 is the transport's answer to the account creation, o2 to the lookup
get_contents(s, o1, o2) ==
    LET g == IF ~Truthy(s.token)
             THEN create_guest_account(s, o1)
             ELSE Done(s, <<>>, <<>>, Return(EmptyPayload))
        r == _request(o2)
    IN  IF g.exc # "none" THEN g
        ELSE Done(g.s, g.sent \o <<ApiReq("GET /contents", g.s)>>, g.got \o Got(r), r)

_post_upload_network_error(o) ==
    IF o.fault = "TimeoutException" THEN Raise("GofileUploadError", "Upload timed out")
    ELSE IF o.fault # "none" THEN Raise("GofileNetworkError", "Failed HTTP request to {url}")
    ELSE Return(o.response)

\* self.client.post(url, data=data, files=files, timeout=None)
_post_upload(o) ==
    IF o.fault = "TimeoutException" THEN Raise("GofileUploadError", "Upload timed out")
    ELSE IF o.fault # "none" THEN Raise("GofileUploadError", "Upload failed")
    ELSE Return(o.response)

\* file is a path string (StrPath) or an open stream (FileObject)
upload(s, file, folder_id, o) ==
    LET tok == IF Truthy(s.token) THEN s.token ELSE NoneVal
        fid == IF Truthy(folder_id) THEN folder_id ELSE NoneVal
        send(wrapped) ==
            LET p == _post_upload(o)
                r == IF p.exc # "none" THEN p ELSE _handle_response(p.value)
            IN  Done(s, <<Req("POST /uploadfile", s.headers, tok, fid, NoneVal, wrapped)>>,
                     Got(r), r)
    IN  IF file.kind = "str"
        THEN LET file_handle == open(file)
             IN  IF file_handle.exc # "none" THEN Done(s, <<>>, <<>>, file_handle)
                 ELSE LET wrapped_file == ProgressFileReader__init__(file_handle.value)
                      IN  IF wrapped_file.exc # "none" THEN Done(s, <<>>, <<>>, wrapped_file)
                          ELSE send(TRUE)
        ELSE send(FALSE)

\* result.to_dict(): the raw payload
upload_file(s, file_path, folder_id, o) == upload(s, file_path, folder_id, o)

\* a download_url with a scheme; "None" is str(None), which has none
HasScheme(download_url) == download_url # "None"

\* fault is what the transport and the disk do to a request that is made.  A URL
\* without scheme makes no request: with cookies to add the transport raises
\* ValueError, without it raises UnsupportedProtocol, an httpx.HTTPError
download_file(s, download_url, fault) ==
    LET cookie == IF Truthy(s.token) THEN s.token ELSE NoneVal
        sent == <<Req("GET download", s.headers, NoneVal, NoneVal, cookie, FALSE)>>
        r == IF ~HasScheme(download_url)
             THEN Raise("GofileNetworkError", "Failed to download from {download_url}")
             ELSE IF fault \in {"ConnectError", "HTTPStatusError"}
             THEN Raise("GofileNetworkError", "Failed to download from {download_url}")
             ELSE IF fault = "OSError"
             THEN Raise("GofileError", "Failed to write file to {output_path}")
             ELSE Return(EmptyPayload)
    IN  IF ~HasScheme(download_url) /\ cookie # NoneVal
        THEN Done(s, <<>>, <<>>, Raise("ValueError", "unknown url type"))
        ELSE Done(s, sent, <<>>, r)

-----------------------------------------------------------------------------
(* cli.py: upload_files *)

\* a path is <<directory, name>>; os.path.basename and os.path.join
basename(path) == Last(path)
join(dir, name) == <<dir, name>>

\* the exception classes of `except (GofileError, httpx.HTTPError, OSError)`
GofileErrors == {"GofileError", "GofileAPIError", "GofileNetworkError", "GofileUploadError"}
HttpxErrors == {"HTTPStatusError", "ConnectError", "TimeoutException"}
OSErrors == {"OSError"}

\* the payloads carry neither downloadPage nor directLink: data.get gives its default
_handle_upload_success(data, filename) ==
    [file |-> filename, status |-> "success", downloadPage |-> NoneVal,
     directLink |-> "N/A", parentFolder |-> get(data.parentFolder)]

_handle_upload_error(filename, error) ==
    [file |-> filename, status |-> "error", message |-> error.msg, errorType |-> error.exc]

_apply_guest_token(s, data) ==
    IF Truthy(get(data.guestToken)) /\ ~Truthy(s.token)
    THEN [token |-> str(data.guestToken), headers |-> Bearer(str(data.guestToken))]
    ELSE s

\* the outcome of one iteration of a batch loop: the session and the loop's
\* locals afterwards, the records appended, and the exception that left the
\* loop ("none": the loop goes on)
Iter(s, tfid, appended, sent, got, exc) ==
    [s |-> s, target_folder_id |-> tfid, appended |-> appended, sent |-> sent,
     got |-> got, exc |-> exc]

\* one iteration of `for file_path in args.files`; file is the path and what
\* the file system holds there, o is the transport's answer to the POST
upload_files_iteration(s, a, tfid, file, o) ==
    IF file.state = "missing"
    THEN Iter(s, tfid, <<[file |-> file.path, status |-> "error",
                          message |-> "File not found"]>>, <<>>, <<>>, "none")
    ELSE LET filename == basename(file.path)
             u == upload_file(s, StrPath(file.state), tfid, o)
         IN  IF u.exc = "none"
             THEN LET data == u.value
                      capture == a.to_single_folder /\ tfid = NoneVal
                      tfid2 == IF capture /\ Truthy(get(data.parentFolder))
                               THEN str(data.parentFolder) ELSE tfid
                      s2 == IF capture THEN _apply_guest_token(u.s, data) ELSE u.s
                  IN  Iter(s2, tfid2, <<_handle_upload_success(data, filename)>>,
                           u.sent, u.got, "none")
             ELSE IF u.exc \in GofileErrors \cup HttpxErrors \cup OSErrors
             THEN Iter(u.s, tfid, <<_handle_upload_error(filename, u)>>, u.sent, u.got, "none")
             ELSE Iter(u.s, tfid, <<>>, u.sent, u.got, u.exc)

-----------------------------------------------------------------------------
(* cli.py: download_files *)

\* a child of a folder payload, under its key id
Child(id, isdict, ty, name, link, size, fault) ==
    [id |-> id, isdict |-> isdict, type |-> ty, name |-> name, link |-> link,
     size |-> size, fault |-> fault]

\* the children a folder payload may hold, before they are given their keys
ChildKinds ==
    LET id == "?"
    IN  {Child(id, FALSE, Missing, Missing, Missing, <<>>, "none"),
         Child(id, TRUE, "folder", "sub", Missing, <<>>, "none"),
         Child(id, TRUE, "file", "a.txt", Missing, <<10>>, "none"),
         Child(id, TRUE, "file", "a.txt", NoneVal, <<10>>, "none"),
         Child(id, TRUE, "file", Missing, "L", <<>>, "none"),
         Child(id, TRUE, "file", NoneVal, "L", <<>>, "none")}
        \cup { Child(id, TRUE, "file", "a.txt", "L", <<10>>, f) : f \in DownloadFaults }

ChildId(i) == "c" \o ToString(i)
Keyed(kind, i) ==
    [kind EXCEPT !.id = ChildId(i),
                 !.name = IF kind.name \in {Missing, NoneVal} THEN kind.name
                          ELSE ChildId(i) \o ".txt"]
ChildLists ==
    UNION { { [i \in 1 .. n |-> Keyed(kinds[i], i)] : kinds \in [1 .. n -> ChildKinds] } :
              n \in 0 .. MaxFiles }

_download_single_file(s, file_name, download_link, output_path, file_size, fault) ==
    LET d == download_file(s, download_link, fault)
    IN  IF d.exc = "none"
        THEN Iter(d.s, NoneVal, <<[file |-> file_name, status |-> "success",
                                   path |-> output_path, size |-> file_size]>>,
                  d.sent, <<>>, "none")
        ELSE IF d.exc \in GofileErrors \cup HttpxErrors \cup OSErrors
        THEN Iter(d.s, NoneVal, <<_handle_upload_error(file_name, d)>>, d.sent, <<>>, "none")
        ELSE Iter(d.s, NoneVal, <<>>, d.sent, <<>>, d.exc)

_process_file_data(s, file_name, file_data, output_dir) ==
    LET download_link == str(get_default(file_data.link, ""))
    IN  IF ~Truthy(download_link)
        THEN Iter(s, NoneVal,
                  <<_handle_upload_error(file_name, Raise("GofileError", "No download link"))>>,
                  <<>>, <<>>, "none")
        ELSE _download_single_file(s, file_name, download_link, join(output_dir, file_name),
                                   size_of(file_data),
                                   file_data.fault)

\* one iteration of `for child_id, child_data in children.items()`
_download_folder_contents_iteration(s, a, child_data) ==
    IF ~child_data.isdict THEN Iter(s, NoneVal, <<>>, <<>>, <<>>, "none")
    ELSE IF get(child_data.type) # "file" THEN Iter(s, NoneVal, <<>>, <<>>, <<>>, "none")
    ELSE LET file_name == str(get_default(child_data.name, "file_" \o child_data.id))
         IN  _process_file_data(s, file_name, child_data, a.output)

\* download_files up to the folder loop: the session afterwards, the result
\* list so far, whether the folder loop follows, and the exception raised
Resolved(s, sent, got, recs, loop, exc) ==
    [s |-> s, sent |-> sent, got |-> got, results |-> recs, loop |-> loop, exc |-> exc]

\* the record of `except (GofileError, httpx.HTTPError) as error`
download_files_except(content_id, error) ==
    [content_id |-> content_id, status |-> "error", message |-> error.msg,
     errorType |-> error.exc]

download_files(s, a, o1, o2) ==
    LET content_id == extract_content_id(a.download)
        g == get_contents(s, o1, o2)
        failed(e) == <<download_files_except(content_id, e)>>
        data == g.value
    IN  IF g.exc \in GofileErrors \cup HttpxErrors
        THEN Resolved(g.s, g.sent, g.got, failed(g), FALSE, "none")
        ELSE IF g.exc # "none"
        THEN Resolved(g.s, g.sent, g.got, <<>>, FALSE, g.exc)
        ELSE IF get(data.type) = "file"
        THEN LET file_name == str(get_default(data.name, "downloaded_file"))
                 download_link == str(get_default(data.link, ""))
             IN  IF ~Truthy(download_link)
                 THEN Resolved(g.s, g.sent, g.got,
                               failed(Raise("GofileError", "No download link found in response")),
                               FALSE, "none")
                 ELSE LET d == _download_single_file(g.s, file_name, download_link,
                                    join(a.output, file_name),
                                    size_of(data), data.fault)
                      IN  Resolved(d.s, g.sent \o d.sent, g.got, d.appended, FALSE, d.exc)
        ELSE IF get(data.type) = "folder"
        THEN IF ~data.childrenIsDict
             THEN Resolved(g.s, g.sent, g.got,
                           failed(Raise("GofileError",
                                        "Invalid children structure in folder response")),
                           FALSE, "none")
             ELSE Resolved(g.s, g.sent, g.got, <<>>, TRUE, "none")
        ELSE Resolved(g.s, g.sent, g.got,
                      failed(Raise("GofileError", "Unknown content type: {content_type}")),
                      FALSE, "none")

-----------------------------------------------------------------------------
(* The session and its callers *)

Session == [token |-> token, headers |-> headers]

Replies(base, got) == [i \in 1 .. Len(got) |-> [req |-> base + i, data |-> got[i]]]

\* the effect of a client method called by the library's user
Call(op, r) ==
    /\ token' = r.s.token
    /\ headers' = r.s.headers
    /\ requests' = r.sent
    /\ replies' = Replies(0, r.got)
    /\ lastOp' = op
    /\ raised' = r.exc
    /\ UNCHANGED <<pc, args, target_folder_id, idx, children, results>>
    /\ UNCHANGED <<normalizeVars, readerVars, extractVars>>

Tokens == {NoneVal, "", "T1"}
FolderIds == {NoneVal, "F0"}
FileStates == {"missing", "unreadable", "regular"}

Path(i) == <<"dir", "f" \o ToString(i)>>
FileLists ==
    UNION { { [i \in 1 .. n |-> [path |-> Path(i), state |-> st[i]]] :
                st \in [1 .. n -> FileStates] } : n \in 1 .. MaxFiles }

DownloadUrls == {<<"d">>, <<Domain, "/", "d", "/", "d", "?", "d">>}

Init ==
    /\ IdleSession /\ IdleNormalize /\ IdleReader /\ IdleExtract

\* main(): client = GofileClient(token=token)
Construct ==
    /\ pc = "new"
    /\ \E tok \in Tokens :
          LET s == GofileClient__init__(tok)
          IN  token' = s.token /\ headers' = s.headers
    /\ pc' = "ready"
    /\ UNCHANGED <<requests, lastOp, raised, args, target_folder_id, idx, children,
                   results, replies>>
    /\ UNCHANGED <<normalizeVars, readerVars, extractVars>>

CanCall == pc = "ready"

CreateGuestAccount ==
    /\ CanCall
    /\ \E o \in Outcomes(AccountPayloads) :
          \E r \in {create_guest_account(Session, o)} : Call("create_guest_account", r)

GetContents ==
    /\ CanCall
    /\ \E o1 \in Outcomes(AccountPayloads), o2 \in Outcomes(ContentPayloads) :
          \E r \in {get_contents(Session, o1, o2)} : Call("get_contents", r)

CreateFolder ==
    /\ CanCall
    /\ \E o \in Outcomes({EmptyPayload}) : \E r \in {create_folder(Session, o)} : Call("create_folder", r)

DeleteContent ==
    /\ CanCall
    /\ \E o \in Outcomes({EmptyPayload}) : \E r \in {delete_content(Session, o)} : Call("delete_content", r)

Upload ==
    /\ CanCall
    /\ \E file \in { StrPath(st) : st \in FileStates } \cup {FileObject},
          folder_id \in FolderIds, o \in Outcomes(UploadPayloads) :
          \E r \in {upload(Session, file, folder_id, o)} : Call("upload", r)

DownloadFile ==
    /\ CanCall
    /\ \E download_url \in {"L", "None"}, fault \in DownloadFaults :
          \E r \in {download_file(Session, download_url, fault)} : Call("download_file", r)

\* main(): results = upload_files(args, client), up to the loop
StartUpload ==
    /\ pc = "ready" /\ lastOp = "none"
    /\ \E files \in FileLists, folder_id \in FolderIds, single \in BOOLEAN :
          /\ args' = Args(files, folder_id, single, <<>>, ".")
          /\ target_folder_id' = folder_id
    /\ pc' = "uploading"
    /\ lastOp' = "upload_files"
    /\ idx' = 0 /\ results' = <<>> /\ requests' = <<>> /\ replies' = <<>>
    /\ raised' = "none"
    /\ UNCHANGED <<token, headers, children>>
    /\ UNCHANGED <<normalizeVars, readerVars, extractVars>>

\* the effect of one iteration of the upload loop over n paths; an exception
\* that upload_files does not catch ends it
Step(it, n) ==
    /\ token' = it.s.token
    /\ headers' = it.s.headers
    /\ requests' = requests \o it.sent
    /\ replies' = replies \o Replies(Len(requests), it.got)
    /\ results' = results \o it.appended
    /\ idx' = idx + 1
    /\ raised' = it.exc
    /\ pc' = IF it.exc # "none" THEN "aborted" ELSE IF idx + 1 = n THEN "done" ELSE pc
    /\ UNCHANGED <<lastOp, args, children>>
    /\ UNCHANGED <<normalizeVars, readerVars, extractVars>>

UploadNext ==
    /\ pc = "uploading"
    /\ \E o \in Outcomes(UploadPayloads) :
          \E it \in {upload_files_iteration(Session, args, target_folder_id,
                                             args.files[idx + 1], o)} :
              /\ Step(it, Len(args.files))
              /\ target_folder_id' = it.target_folder_id

\* main(): results = download_files(args, client), up to the folder loop
StartDownload ==
    /\ pc = "ready" /\ lastOp = "none"
    /\ \E url \in DownloadUrls, o1 \in Outcomes(AccountPayloads),
          o2 \in Outcomes(ContentPayloads) :
          \E r \in {download_files(Session, Args(<<>>, NoneVal, FALSE, url, "out"), o1, o2)} :
              /\ args' = Args(<<>>, NoneVal, FALSE, url, "out")
              /\ token' = r.s.token
              /\ headers' = r.s.headers
              /\ requests' = r.sent
              /\ replies' = Replies(0, r.got)
              /\ results' = r.results
              /\ raised' = r.exc
              /\ IF r.loop
                 THEN \* the children of the folder payload
                      \E kids \in ChildLists :
                         /\ children' = kids
                         /\ pc' = IF kids = <<>> THEN "done" ELSE "downloading"
                 ELSE /\ children' = <<>>
                      /\ pc' = IF r.exc # "none" THEN "aborted" ELSE "done"
    /\ lastOp' = "download_files"
    /\ idx' = 0
    /\ UNCHANGED target_folder_id
    /\ UNCHANGED <<normalizeVars, readerVars, extractVars>>

\* one iteration of the folder loop; an exception leaving the loop reaches the
\* `except (GofileError, httpx.HTTPError)` of download_files
DownloadChild ==
    /\ pc = "downloading"
    /\ \E it \in {_download_folder_contents_iteration(Session, args, children[idx + 1])} :
          /\ token' = it.s.token
          /\ headers' = it.s.headers
          /\ requests' = requests \o it.sent
          /\ idx' = idx + 1
          /\ IF it.exc = "none"
             THEN /\ results' = results \o it.appended
                  /\ raised' = "none"
                  /\ pc' = IF idx + 1 = Len(children) THEN "done" ELSE pc
             ELSE IF it.exc \in GofileErrors \cup HttpxErrors
             THEN /\ results' = <<download_files_except(extract_content_id(args.download),
                                                        Raise(it.exc, ""))>>
                  /\ raised' = "none"
                  /\ pc' = "done"
             ELSE /\ results' = results
                  /\ raised' = it.exc
                  /\ pc' = "aborted"
    /\ UNCHANGED <<lastOp, args, children, replies, target_folder_id>>
    /\ UNCHANGED <<normalizeVars, readerVars, extractVars>>

Next ==
    \/ Construct
    \/ CreateGuestAccount
    \/ GetContents
    \/ CreateFolder
    \/ DeleteContent
    \/ Upload
    \/ DownloadFile
    \/ StartUpload
    \/ UploadNext
    \/ StartDownload
    \/ DownloadChild

Spec == Init /\ [][Next]_vars

-----------------------------------------------------------------------------
(* Specification of one GofileClient.upload call, with its progress callback *)

\* the file argument of upload: a path string or an open stream
Sources == { StrPath(st) : st \in FileStates } \cup {FileObject}

\* what self.client.post may be answered with
PostOutcomes ==
    { [fault |-> f] : f \in Faults }
    \cup { Answer(r.status_code, r.body) : r \in Responses(UploadPayloads) }

\* the callback arguments while a ProgressFileReader over a file of n bytes is
\* read from pos to its end in reads of the given size
RECURSIVE read_to_eof(_, _, _)
read_to_eof(size, n, pos) ==
    LET r == read(size, n, pos)
    IN  IF r.chunk = 0 THEN r.callback
        ELSE r.callback \o read_to_eof(size, n, pos + r.chunk)

\* the callback arguments while the transport reads the file part of the POST:
\* only a ProgressFileReader calls progress_callback, a bare stream does not
progress_of(sent, n, size) ==
    IF sent # <<>> /\ sent[1].wrapped THEN read_to_eof(size, n, 0) ELSE <<>>

InitUpload ==
    /\ pc = "ready"
    /\ \E tok \in Tokens :
          LET s == GofileClient__init__(tok)
          IN  token = s.token /\ headers = s.headers
    /\ args \in { Args(<<src>>, fid, FALSE, <<>>, ".") : src \in Sources, fid \in FolderIds }
    /\ response \in PostOutcomes
    /\ fsize \in 0 .. MaxSize
    /\ requests = <<>> /\ lastOp = "none" /\ raised = "none" /\ target_folder_id = NoneVal
    /\ idx = 0 /\ children = <<>> /\ results = <<>> /\ replies = <<>>
    /\ normalized = Pending
    /\ reader = "unopened" /\ fpos = 0 /\ calls = <<>> /\ chunks = <<>>
    /\ IdleExtract

\* client.upload(args.files[1], args.folder_id, callback) answered with response;
\* the transport reads the file part in reads of some size, to its end unless it fails
UploadOnce ==
    /\ lastOp = "none"
    /\ \E r \in {upload(Session, args.files[1], args.folder_id, response)} :
          /\ token' = r.s.token
          /\ headers' = r.s.headers
          /\ requests' = r.sent
          /\ replies' = Replies(0, r.got)
          /\ raised' = r.exc
          /\ normalized' = IF r.exc = "none" THEN Return(r.value) ELSE Raise(r.exc, r.msg)
          /\ \E size \in 1 .. MaxSize :
                \E full \in {progress_of(r.sent, fsize, size)} :
                   IF response.fault = "none"
                   THEN calls' = full
                   ELSE \E k \in 0 .. Len(full) : calls' = SubSeq(full, 1, k)
    /\ lastOp' = "upload"
    /\ UNCHANGED <<pc, args, target_folder_id, idx, children, results, response>>
    /\ UNCHANGED <<reader, fsize, fpos, chunks, extractVars>>

NextUpload == UploadOnce
SpecUpload == InitUpload /\ [][NextUpload]_vars

\* the POST was answered with an envelope that signals failure
EnvelopeFailure ==
    /\ response.fault = "none"
    /\ response.response.body.kind = "dict"
    /\ (response.response.body.status # "ok" \/ ~response.response.body.data.mapping)

\* C13 as stated: a timeout at the POST is raised as GofileUploadError, any other
\* transport fault at the POST as GofileNetworkError, and an envelope failure of
\* the upload response as GofileAPIError.
C13_UploadFailureClassification ==
    (lastOp = "upload" /\ requests # <<>>) =>
        /\ response.fault = "TimeoutException" => raised = "GofileUploadError"
        /\ response.fault \notin {"none", "TimeoutException"} => raised = "GofileNetworkError"
        /\ EnvelopeFailure => raised = "GofileAPIError"

\* C13 amended: a timeout at the POST is raised as GofileUploadError "Upload
\* timed out", any other transport fault at the POST as GofileUploadError
\* "Upload failed", and an envelope failure of the upload response as
\* GofileAPIError.
C13_PostFaultsAreUploadErrors ==
    (lastOp = "upload" /\ requests # <<>>) =>
        /\ response.fault = "TimeoutException"
              => normalized = Raise("GofileUploadError", "Upload timed out")
        /\ response.fault \notin {"none", "TimeoutException"}
              => normalized = Raise("GofileUploadError", "Upload failed")
        /\ EnvelopeFailure => raised = "GofileAPIError"

\* a stream upload whose POST met a connection fault
C13_Witness ==
    /\ lastOp = "upload"
    /\ args.files[1] = FileObject
    /\ Len(requests) = 1 /\ requests[1].op = "POST /uploadfile"
    /\ response.fault = "ConnectError"
    /\ normalized = Raise("GofileUploadError", "Upload failed")

\* C14: an upload from an existing path and an upload from an open stream each
\* issue exactly one POST to /uploadfile whose file part is a ProgressFileReader,
\* and when the POST is answered the callback has received, in total, the size
\* of the source.
C14_FilePartThroughProgressStream ==
    (lastOp = "upload" /\ args.files[1] \in {StrPath("regular"), FileObject}) =>
        /\ Len(requests) = 1
        /\ requests[1].op = "POST /uploadfile"
        /\ requests[1].wrapped
        /\ response.fault = "none" => SumSeq(calls) = fsize

-----------------------------------------------------------------------------
(* Credential and Authorization header *)

\* C3: whenever the session holds a credential, the transport's default
\* Authorization header is "Bearer " followed by exactly that credential.
C3_HeaderFollowsCredential == Truthy(token) => headers = Bearer(token)

\* a session built without a token that adopted a guest token in get_contents
C3_Witness ==
    /\ lastOp = "get_contents"
    /\ Len(requests) = 2
    /\ requests[1].auth = NoneVal
    /\ token = "G2"
    /\ headers = Bearer("G2")

-----------------------------------------------------------------------------
(* get_contents and the guest account *)

Lookup(sent) == { i \in 1 .. Len(sent) : sent[i].op = "GET /contents" }
Creation(sent) == { i \in 1 .. Len(sent) : sent[i].op = "POST /accounts" }

\* C9: a get_contents call on a session without credential sends the account
\* creation first and the lookup, if any, second, with the token the account
\* payload returned adopted and sent as bearer; on a session with a credential
\* it sends the lookup alone, with that credential, and leaves it unchanged.
C9_ResolveWithIdentity ==
    [][ (lastOp' = "get_contents" \/ (lastOp = "none" /\ lastOp' = "download_files"))
        => IF ~Truthy(token)
           THEN /\ Creation(requests') = {1}
                /\ requests'[1].auth = headers
                /\ Lookup(requests') \subseteq {2}
                /\ Lookup(requests') = {2} =>
                     /\ replies'[1].req = 1
                     /\ LET granted == replies'[1].data.token
                        IN  granted # Missing =>
                              /\ token' = str(granted)
                              /\ requests'[2].auth = Bearer(str(granted))
           ELSE /\ Creation(requests') = {}
                /\ Lookup(requests') = {1}
                /\ requests'[1].auth = Bearer(token)
                /\ token' = token
      ]_vars

\* a guest session whose lookup went out second, under the token just granted
C9_Witness ==
    /\ lastOp = "get_contents"
    /\ Len(requests) = 2
    /\ requests[1].op = "POST /accounts" /\ requests[1].auth = NoneVal
    /\ requests[2].op = "GET /contents" /\ requests[2].auth = Bearer("G2")
    /\ replies[1].data.token = "G2"
    /\ token = "G2"

-----------------------------------------------------------------------------
(* Error taxonomy *)

CoreOps == {"upload", "get_contents", "create_folder", "delete_content",
            "create_guest_account", "download_file"}
FourKinds == {"GofileNetworkError", "GofileAPIError", "GofileUploadError",
              "GofileError", "OSError"}

\* C10: every failure a core operation raises is a GofileNetworkError, a
\* GofileAPIError, a GofileUploadError or the generic local I/O error
\* (GofileError from a failed write, OSError from a failed open).
C10_TaxonomyTotal == lastOp \in CoreOps => raised \in FourKinds \cup {"none"}

-----------------------------------------------------------------------------
(* upload_files *)

BatchEnded == lastOp = "upload_files" /\ pc \in {"done", "aborted"}
AllRegular == \A i \in 1 .. Len(args.files) : args.files[i].state = "regular"

\* C5: upload_files returns one record per input path, in input order,
\* whatever happens to each upload.
C5_UploadBatchIsolation ==
    BatchEnded =>
        /\ pc = "done"
        /\ Len(results) = Len(args.files)
        /\ \A i \in 1 .. Len(args.files) :
              /\ results[i].status \in {"success", "error"}
              /\ IF args.files[i].state = "missing"
                 THEN results[i].file = args.files[i].path
                 ELSE results[i].file = basename(args.files[i].path)

\* the parentFolder of the first reply received before request j that has one
FolderFixedBefore(j) ==
    LET has == { i \in 1 .. Len(replies) :
                   replies[i].req < j /\ Truthy(get(replies[i].data.parentFolder)) }
    IN  IF has = {} THEN NoneVal
        ELSE replies[CHOOSE i \in has : \A k \in has : i <= k].data.parentFolder

\* C1: in a single-folder batch with no folder id given, every readable path is
\* uploaded, and each upload request carries as folderId the parentFolder of
\* the first response of the batch that included one.
C1_FolderContinuity ==
    (BatchEnded /\ args.to_single_folder /\ args.folder_id = NoneVal /\ AllRegular) =>
        /\ Len(requests) = Len(args.files)
        /\ \A j \in 1 .. Len(requests) : requests[j].folderId = FolderFixedBefore(j)

\* C2: in a batch of readable paths every path is uploaded, and when the batch
\* started without credential and the first response includes a guestToken,
\* every later request carries it as bearer and as token form field.
C2_GuestUpgrade ==
    (BatchEnded /\ AllRegular) =>
        /\ Len(requests) = Len(args.files)
        /\ (/\ requests[1].auth = NoneVal
            /\ Len(replies) >= 1
            /\ replies[1].req = 1
            /\ Truthy(get(replies[1].data.guestToken)))
           => \A j \in 2 .. Len(requests) :
                 /\ requests[j].auth = Bearer(replies[1].data.guestToken)
                 /\ requests[j].token = replies[1].data.guestToken

-----------------------------------------------------------------------------
(* download_files on a folder *)

IsFileChild(c) == c.isdict /\ get(c.type) = "file"
FileChildren(kids) == SelectSeq(kids, IsFileChild)
LocalName(c) == str(get_default(c.name, "file_" \o c.id))
Fails(c) == get(c.link) = NoneVal \/ c.fault # "none"

\* C4: while a folder is downloaded the loop is never left early, and the
\* results are one record per file child processed so far, in child order,
\* marked error exactly for the children whose link is missing (absent or
\* null) or whose download failed; at the end that is one record per file child.
C4_FolderFailureIsolation ==
    (lastOp = "download_files" /\ children # <<>>) =>
        LET seen == FileChildren(SubSeq(children, 1, idx))
        IN  /\ pc # "aborted"
            /\ pc = "done" <=> idx = Len(children)
            /\ Len(results) = Len(seen)
            /\ \A i \in 1 .. Len(seen) :
                  /\ "file" \in DOMAIN results[i]
                  /\ results[i].file = LocalName(seen[i])
                  /\ results[i].status = IF Fails(seen[i]) THEN "error" ELSE "success"

-----------------------------------------------------------------------------
(* download_files on an unknown content type *)

\* the payloads the contents lookup of this download_files run returned
LookupPayloads ==
    { replies[i].data : i \in { k \in 1 .. Len(replies) :
                                  requests[replies[k].req].op = "GET /contents" } }

\* C11: when the resolved content's type is neither "file" nor "folder", the
\* download flow reports one failure of kind GofileAPIError with the message
\* "Unknown content type: {type}" and issues no download request.
C11_UnknownContentType ==
    (lastOp = "download_files" /\ pc = "done") =>
        \A data \in LookupPayloads :
            get(data.type) \notin {"file", "folder"} =>
                /\ Len(results) = 1
                /\ results[1].status = "error"
                /\ results[1].message = "Unknown content type: {content_type}"
                /\ results[1].errorType = "GofileAPIError"
                /\ \A j \in 1 .. Len(requests) : requests[j].op # "GET download"

-----------------------------------------------------------------------------
(* Shape of the batch results *)

\* C12: every record of upload_files and download_files has status success or
\* error, and every error record carries a message and an error-kind label.
C12_BatchResultShape ==
    lastOp \in {"upload_files", "download_files"} =>
        \A i \in 1 .. Len(results) :
            /\ results[i].status \in {"success", "error"}
            /\ results[i].status = "error" =>
                  {"message", "errorType"} \subseteq DOMAIN results[i]

====
